---- MODULE Spec2Model ----
(***************************************************************************)
(* SimplePlot / Sparkline++ : one call of Sparkline::Sparkline<float>()    *)
(* (Sparkline.h, kept as src/unnamed/part_002) as a state machine.  The    *)
(* call walks through the blocks of the function body in source order:     *)
(* range resolution, width limiting, the "not implemented" check, bin      *)
(* interpolation, upper border, plot lines, lower border with x-ticks.     *)
(*                                                                         *)
(* Numbers.  float values are modelled as exact rationals <<num, den>> in  *)
(* lowest terms (den > 0); <<0,0>> is NaN and <<1,0>>, <<-1,0>> are the    *)
(* infinities, the results IEEE division by zero gives.  Rounding of float *)
(* arithmetic is not modelled.  size_t values are kept modulo SIZE_T_MOD.  *)
(***************************************************************************)
EXTENDS Integers, Sequences, FiniteSets, TLC

(***************************************************************************)
(* Bounds of the explored input space                                      *)
(***************************************************************************)
\* longest series explored
MaxN == 5
\* largest plot height (this_many_lines_high) explored
MaxRows == 3
\* magnitude that stands for the extreme floats: FLT_MAX is FltBig and
\* FLT_MIN (the smallest positive float) is 1/FltBig
FltBig == 1024

(***************************************************************************)
(* Program constants                                                       *)
(***************************************************************************)
PREC == 12
ENCLOSURE_WIDTH == PREC + 8
TICKS == 8
\* stands for 2^64, the modulus of size_t arithmetic
SIZE_T_MOD == 1073741824
\* (int) of a NaN float on x86-64 (cvttss2si): INT_MIN
INT_MIN == -2147483647 - 1

(***************************************************************************)
(* float arithmetic as exact rationals                                     *)
(***************************************************************************)
Abs(x) == IF x < 0 THEN -x ELSE x

Sign(x) == IF x < 0 THEN -1 ELSE IF x = 0 THEN 0 ELSE 1

RECURSIVE GCD(_, _)
GCD(a, b) == IF b = 0 THEN a ELSE GCD(b, a % b)

\* n/d as a float: lowest terms, positive denominator; x/0 is NaN or +-inf
Rat(n, d) ==
  IF d = 0 THEN <<Sign(n), 0>>
  ELSE LET g == GCD(Abs(n), Abs(d))
           s == IF d < 0 THEN -1 ELSE 1
       IN  <<(s * n) \div g, (s * d) \div g>>

FromInt(n) == <<n, 1>>

IsNaN(x) == x = <<0, 0>>

IsFinite(x) == x[2] # 0

RAdd(x, y) == Rat(x[1] * y[2] + y[1] * x[2], x[2] * y[2])

RSub(x, y) == Rat(x[1] * y[2] - y[1] * x[2], x[2] * y[2])

RMul(x, y) == Rat(x[1] * y[1], x[2] * y[2])

\* IEEE division: finite/0 is +-inf, 0/0 is NaN
RDiv(x, y) ==
  IF y[1] = 0 THEN <<Sign(x[1]), 0>>
  ELSE Rat(x[1] * y[2], x[2] * y[1])

RLess(x, y) == x[1] * y[2] < y[1] * x[2]

RLeq(x, y) == x[1] * y[2] <= y[1] * x[2]

\* std::min(a, b): b < a ? b : a
RMin(a, b) == IF RLess(b, a) THEN b ELSE a

\* std::max(a, b): a < b ? b : a
RMax(a, b) == IF RLess(a, b) THEN b ELSE a

\* std::floor of a finite float, as an integer
RFloor(x) == x[1] \div x[2]

\* (size_t)x for a non-negative finite float: truncation
Trunc(x) == x[1] \div x[2]

\* std::numeric_limits<float>::max()
FLT_MAX == <<FltBig, 1>>

\* std::numeric_limits<float>::min(): the smallest POSITIVE normal float
FLT_MIN == <<1, FltBig>>

(***************************************************************************)
(* size_t arithmetic                                                       *)
(***************************************************************************)
SizeT(x) == x % SIZE_T_MOD

\* conversion of a size_t to int (the argument type of std::setw)
ToInt(x) == IF x >= SIZE_T_MOD \div 2 THEN x - SIZE_T_MOD ELSE x

RECURSIVE CeilLog10(_)
\* ceil(log10(m)) for m >= 1: the least k with 10^k >= m
CeilLog10(m) == IF m <= 1 THEN 0 ELSE 1 + CeilLog10((m + 9) \div 10)

\* SparklineHelpers::CharLength
CharLength(n) == CeilLog10(n + 1)

(***************************************************************************)
(* State of one call                                                       *)
(***************************************************************************)
VARIABLES
  data,                       \* the series, data[1..N] (C index j is data[j+1])
  number_of_data_points,      \* N
  this_many_lines_high,       \* rows
  requested_wide,             \* this_many_characters_wide as passed by the caller
  enclose_in_box,
  title,                      \* title.size(); the characters do not matter
  ws_col,                     \* what TerminalWidth() returns
  minv_arg, maxv_arg,         \* minv, maxv as passed by the caller
  minv, maxv,                 \* the locals minv, maxv: the resolved range
  this_many_characters_wide,  \* the local the code overwrites (effective width)
  max_width,
  w_scale,
  bins,                       \* bins[1..wide] (C index i is bins[i+1])
  fraction,                   \* per column, the float (_data-minv)/(maxv-minv)
  index,                      \* per column, int index = floor(fraction*levels)
  x_ticks, x_ticks_values,    \* tick columns and labels (C index i is [i+1])
  oss,                        \* the output stream, a sequence of tokens
  pc                          \* the block of Sparkline() to run next

vars == <<data, number_of_data_points, this_many_lines_high, requested_wide,
          enclose_in_box, title, ws_col, minv_arg, maxv_arg, minv, maxv,
          this_many_characters_wide, max_width, w_scale, bins, fraction,
          index, x_ticks, x_ticks_values, oss, pc>>

args == <<data, number_of_data_points, this_many_lines_high, requested_wide,
          enclose_in_box, title, ws_col, minv_arg, maxv_arg>>

(***************************************************************************)
(* Inputs                                                                  *)
(***************************************************************************)
DataVals == {-1, 0, 2}

\* series of length n with one sample a standing out of a background b
Series(n) ==
  IF n = 0 THEN {<<>>}
  ELSE {[i \in 1..n |-> FromInt(IF i = k THEN a ELSE b)] :
          k \in 1..n, a \in DataVals, b \in DataVals}

\* --min / setMin: unset (the default argument) or a value
MinArgs == {FLT_MAX, FromInt(0), FromInt(1)}

\* --max / setMax: unset (the default argument) or a value
MaxArgs == {FLT_MIN, FromInt(1), FromInt(2)}

\* terminal widths: narrower than the enclosure, exactly the enclosure,
\* a few columns more, and a wide terminal
TermWidths == {3, ENCLOSURE_WIDTH, ENCLOSURE_WIDTH + 4, 80}

\* title lengths: none, short, long
TitleLens == {0, 2, 7}

\* lengths of the longer series of the layout calls (21 is the README's
\* Gaussian example)
LongLens == {12, 21}

\* Calls that exercise the numerics: every series, width, height and range,
\* drawn without box on a wide terminal.
InitNumeric ==
  /\ number_of_data_points \in 0..MaxN
  /\ data \in Series(number_of_data_points)
  /\ this_many_lines_high \in 1..MaxRows
  /\ requested_wide \in 0..(number_of_data_points + 1)
  /\ enclose_in_box = FALSE
  /\ title = 0
  /\ ws_col = 80
  /\ minv_arg \in MinArgs
  /\ maxv_arg \in MaxArgs

\* Calls that exercise the layout: a fixed series per length, default range,
\* every width, height, box setting, title and terminal width.
InitLayout ==
  /\ number_of_data_points \in (0..MaxN) \cup LongLens
  /\ data = [i \in 1..number_of_data_points |-> FromInt((i % 3) - 1)]
  /\ this_many_lines_high \in 1..MaxRows
  /\ requested_wide \in 0..(number_of_data_points + 1)
  /\ enclose_in_box \in BOOLEAN
  /\ title \in TitleLens
  /\ ws_col \in TermWidths
  /\ minv_arg = FLT_MAX
  /\ maxv_arg = FLT_MIN

\* the samples of ShowExampleGaussian, in ten-thousandths (four decimals)
GaussianSamples ==
  <<5, 15, 38, 87, 180, 332, 547, 807, 1065, 1258, 1330,
    1258, 1065, 807, 547, 332, 180, 87, 38, 15, 5>>

\* The call ShowExampleGaussian makes (the README example): 21 samples,
\* height 3, width left at 0, box, title "Gaussian", range [0, 0.15].
InitGaussian ==
  /\ number_of_data_points = Len(GaussianSamples)
  /\ data = [i \in 1..Len(GaussianSamples) |-> Rat(GaussianSamples[i], 10000)]
  /\ this_many_lines_high = 3
  /\ requested_wide = 0
  /\ enclose_in_box = TRUE
  /\ title = 8
  /\ ws_col = 80
  /\ minv_arg = FromInt(0)
  /\ maxv_arg = Rat(15, 100)

Init ==
  /\ InitNumeric \/ InitLayout \/ InitGaussian
  /\ minv = minv_arg
  /\ maxv = maxv_arg
  /\ this_many_characters_wide = requested_wide
  /\ max_width = 0
  /\ w_scale = FromInt(1)
  /\ bins = <<>>
  /\ fraction = <<>>
  /\ index = <<>>
  /\ x_ticks = <<>>
  /\ x_ticks_values = <<>>
  /\ oss = <<>>
  /\ pc = "range"

(***************************************************************************)
(* Range resolution (lines 288-297)                                        *)
(***************************************************************************)
RECURSIVE AdaptMin(_, _)
\* for (i ..) minv = std::min(minv, data[i]), from C index i on
AdaptMin(m, i) ==
  IF i >= number_of_data_points THEN m
  ELSE AdaptMin(RMin(m, data[i + 1]), i + 1)

RECURSIVE AdaptMax(_, _)
\* for (i ..) maxv = std::max(maxv, data[i]), from C index i on
AdaptMax(m, i) ==
  IF i >= number_of_data_points THEN m
  ELSE AdaptMax(RMax(m, data[i + 1]), i + 1)

\* the test that decides whether the range adapts to the data
RangeUnset(lo, hi) == lo = FLT_MAX /\ hi = FLT_MIN

ResolveRange ==
  /\ pc = "range"
  /\ LET lo == RMin(minv_arg, FLT_MAX)
         hi == RMax(maxv_arg, FLT_MIN)
     IN  IF RangeUnset(lo, hi)
         THEN /\ minv' = AdaptMin(lo, 0)
              /\ maxv' = AdaptMax(hi, 0)
         ELSE /\ minv' = lo
              /\ maxv' = hi
  /\ pc' = "width"
  /\ UNCHANGED <<args, this_many_characters_wide, max_width, w_scale, bins,
                 fraction, index, x_ticks, x_ticks_values, oss>>

(***************************************************************************)
(* Width limiting (lines 299-314)                                          *)
(***************************************************************************)
\* size_t max_width = TerminalWidth(); if (enclose_in_box) max_width -= 20
MaxWidth ==
  IF enclose_in_box THEN SizeT(ws_col - ENCLOSURE_WIDTH) ELSE ws_col

\* the width after "0 means N" and after the clip to max_width
LimitedWidth(mw) ==
  LET wide == IF requested_wide = 0 THEN number_of_data_points
              ELSE requested_wide
  IN  IF mw < wide THEN mw ELSE wide

LimitWidth ==
  /\ pc = "width"
  /\ max_width' = MaxWidth
  /\ this_many_characters_wide' = LimitedWidth(max_width')
  /\ w_scale' = RDiv(FromInt(this_many_characters_wide'),
                     FromInt(number_of_data_points))
  /\ pc' = "check"
  /\ UNCHANGED <<args, minv, maxv, bins, fraction, index, x_ticks,
                 x_ticks_values, oss>>

(***************************************************************************)
(* The "not implemented" check (lines 316-319)                             *)
(***************************************************************************)
\* the check with >= in place of >
NotImplementedGeq == this_many_characters_wide >= number_of_data_points

NotImplemented == this_many_characters_wide > number_of_data_points

\* throw std::runtime_error("Woops! Not implemented..")
ThrowNotImplemented ==
  /\ pc = "check"
  /\ NotImplemented
  /\ pc' = "thrown"
  /\ UNCHANGED <<args, minv, maxv, this_many_characters_wide, max_width,
                 w_scale, bins, fraction, index, x_ticks, x_ticks_values, oss>>

(***************************************************************************)
(* Bin interpolation (lines 321-346)                                       *)
(***************************************************************************)
\* bin_slices_indices[i] = i/w_scale
BinSlice(i) == RDiv(FromInt(i), w_scale)

\* frac(x) = x - (size_t)x
Frac(x) == RSub(x, FromInt(Trunc(x)))

RECURSIVE FullSamples(_, _)
\* for (j = from; j < to; ++j) bins[i] += data[j]
FullSamples(from, to) ==
  IF from >= to THEN FromInt(0)
  ELSE RAdd(data[from + 1], FullSamples(from + 1, to))

\* the partial contribution of the sample at floor(upper), guarded by the
\* bounds test of line 340
UpperPart(upper) ==
  IF Trunc(upper) < number_of_data_points
  THEN RMul(Frac(upper), data[Trunc(upper) + 1])
  ELSE FromInt(0)

\* Bin without the partial contribution of the sample at floor(upper)
BinDropUpper(i) ==
  LET lower == BinSlice(i)
      upper == BinSlice(i + 1)
      mass_per_bin == RDiv(FromInt(1), w_scale)
      first == RMul(RSub(FromInt(1), Frac(lower)), data[Trunc(lower) + 1])
      acc == RAdd(first, FullSamples(Trunc(lower) + 1, Trunc(upper)))
  IN  RDiv(acc, mass_per_bin)

\* bins[i] for C index i
Bin(i) ==
  LET lower == BinSlice(i)
      upper == BinSlice(i + 1)
      mass_per_bin == RDiv(FromInt(1), w_scale)
      first == RMul(RSub(FromInt(1), Frac(lower)), data[Trunc(lower) + 1])
      acc == RAdd(RAdd(first, FullSamples(Trunc(lower) + 1, Trunc(upper))),
                  UpperPart(upper))
  IN  RDiv(acc, mass_per_bin)

Interpolate ==
  /\ pc = "check"
  /\ ~NotImplemented
  /\ bins' = [i \in 1..this_many_characters_wide |-> Bin(i - 1)]
  /\ pc' = "top"
  /\ UNCHANGED <<args, minv, maxv, this_many_characters_wide, max_width,
                 w_scale, fraction, index, x_ticks, x_ticks_values, oss>>

(***************************************************************************)
(* Output tokens.  Every token is <<kind, a, b>>:                          *)
(*   box characters  "NW" "NE" "SW" "SE" "H" "HT" "V" "VT"                 *)
(*   <<"title", len, 0>>   the title string                                *)
(*   <<"nl", 0, 0>>        a newline ('\n' or std::endl)                   *)
(*   <<"sp", k, 0>>        k blanks                                        *)
(*   <<"tick", g, 0>>      the glyph ticks[g]                              *)
(*   <<"txt", id, 0>>      a literal: 1 " min: ", 2 ", max: ", 3 " max: ", *)
(*                         4 "      "                                      *)
(*   <<"val", n, d>>       the float n/d written with operator<<           *)
(*   <<"valw", n, d>>      the same under std::left << std::setw(PREC)     *)
(*   <<"num", v, 0>>       the size_t v written with operator<<            *)
(***************************************************************************)
Tok(kind) == <<kind, 0, 0>>

Rep(tok, k) == [j \in 1..k |-> tok]

NL == <<"nl", 0, 0>>

Blanks(k) == <<"sp", k, 0>>

\* oss << std::setw(w) << ' ': the blank, padded to a field of (int)w
SetwBlank(w) == Blanks(IF ToInt(w) > 1 THEN ToInt(w) ELSE 1)

(***************************************************************************)
(* Upper border (lines 356-384)                                            *)
(***************************************************************************)
\* the fill left of the title rounded up instead of down
TitleLeftCeil(filler) == (filler + 1) \div 2

\* while ( i < filler/2 ): the number of border characters left of the title
TitleLeft(filler) == filler \div 2

UpperBorderTokens ==
  IF ~enclose_in_box THEN <<>>
  ELSE IF title = 0
  THEN <<Tok("NW")>> \o Rep(Tok("H"), this_many_characters_wide)
         \o <<Tok("NE"), NL>>
  ELSE IF title > this_many_characters_wide
  THEN <<<<"title", title, 0>>, NL>>
  ELSE LET filler == this_many_characters_wide - title
           left == TitleLeft(filler)
           \* i = left + title.length(); while (i < wide) ++i
           right == IF left + title < this_many_characters_wide
                    THEN this_many_characters_wide - (left + title) ELSE 0
       IN  <<Tok("NW")>> \o Rep(Tok("H"), left) \o <<<<"title", title, 0>>>>
             \o Rep(Tok("H"), right) \o <<Tok("NE"), NL>>

UpperBorder ==
  /\ pc = "top"
  /\ oss' = oss \o UpperBorderTokens
  /\ pc' = "lines"
  /\ UNCHANGED <<args, minv, maxv, this_many_characters_wide, max_width,
                 w_scale, bins, fraction, index, x_ticks, x_ticks_values>>

(***************************************************************************)
(* Plot lines (lines 387-437)                                              *)
(***************************************************************************)
\* size_t levels = this_many_lines_high*TICKS-1
LevelsOf(rows) == SizeT(rows * TICKS - 1)

Levels == LevelsOf(this_many_lines_high)

\* the bin value used without clamping it to the range
ClampedNot(v) == v

\* const T _data = std::min(maxv, std::max(minv, bins[i]))
Clamped(v) == RMin(maxv, RMax(minv, v))

\* the fraction measured down from maxv instead of up from minv
FractionFromTop(v) == RDiv(RSub(maxv, Clamped(v)), RSub(maxv, minv))

\* float fraction = (float)(_data-minv)/(float)(maxv-minv)
Fraction(v) == RDiv(RSub(Clamped(v), minv), RSub(maxv, minv))

\* what (int) of a float that is NaN or infinite can give: the conversion is
\* undefined; x86-64 gives INT_MIN, AArch64 gives 0 for NaN
NaNToInt == {INT_MIN, 0}

\* int index = std::floor(fraction*levels); ub is the outcome of the
\* undefined conversion
IndexAt(v, ub, levels) ==
  LET f == Fraction(v)
  IN  IF IsFinite(f) THEN RFloor(RMul(f, FromInt(levels))) ELSE ub

Index(v, ub) == IndexAt(v, ub, Levels)

\* the cell with <= in place of < in the test for an empty cell
CellEmptyAtMin(idx, line) ==
  LET this_line_min_index == line * TICKS
      this_line_max_index == this_line_min_index + (TICKS - 1)
  IN  IF idx <= this_line_min_index THEN Blanks(1)
      ELSE IF idx > this_line_max_index THEN <<"tick", TICKS - 1, 0>>
      ELSE <<"tick", idx - this_line_min_index, 0>>

\* the cell of one column on one line
Cell(idx, line) ==
  LET this_line_min_index == line * TICKS
      this_line_max_index == this_line_min_index + (TICKS - 1)
  IN  IF idx < this_line_min_index THEN Blanks(1)
      ELSE IF idx > this_line_max_index THEN <<"tick", TICKS - 1, 0>>
      ELSE <<"tick", idx - this_line_min_index, 0>>

\* the "middle" level divided by levels instead of rows*TICKS
MiddleValueOverLevels(line) ==
  RAdd(RDiv(RMul(FromInt(line * TICKS + 4), RSub(maxv, minv)),
            FromInt(Levels)),
       minv)

\* "middle" level of a line: (line*TICKS+4) * (maxv-minv)/(rows*TICKS) + minv
MiddleValue(line) ==
  RAdd(RDiv(RMul(FromInt(line * TICKS + 4), RSub(maxv, minv)),
            FromInt(this_many_lines_high * TICKS)),
       minv)

\* right box border and min/max value marks
RightBorder(line) ==
  IF ~enclose_in_box THEN <<>>
  ELSE IF this_many_lines_high = 1
  THEN <<Tok("VT"), <<"txt", 1, 0>>, <<"valw", minv[1], minv[2]>>,
         <<"txt", 2, 0>>, <<"valw", maxv[1], maxv[2]>>>>
  ELSE IF line = this_many_lines_high - 1
  THEN <<Tok("VT"), <<"txt", 3, 0>>, <<"val", maxv[1], maxv[2]>>>>
  ELSE IF line = 0
  THEN <<Tok("VT"), <<"txt", 1, 0>>, <<"val", minv[1], minv[2]>>>>
  ELSE <<Tok("VT"), <<"txt", 4, 0>>,
         <<"val", MiddleValue(line)[1], MiddleValue(line)[2]>>>>

\* one pass of the loop with the newline written after every line
LineTokensTerminated(idx, line) ==
  (IF enclose_in_box THEN <<Tok("V")>> ELSE <<>>)
    \o [i \in 1..this_many_characters_wide |-> Cell(idx[i], line)]
    \o RightBorder(line)
    \o <<NL>>

\* one pass of the loop over lines, for the column indices idx
LineTokens(idx, line) ==
  (IF enclose_in_box THEN <<Tok("V")>> ELSE <<>>)
    \o [i \in 1..this_many_characters_wide |-> Cell(idx[i], line)]
    \o RightBorder(line)
    \o (IF line > 0 THEN <<NL>> ELSE <<>>)

RECURSIVE LinesFrom(_, _)
\* for (line = from; line >= 0; --line)
LinesFrom(idx, line) ==
  IF line < 0 THEN <<>>
  ELSE LineTokens(idx, line) \o LinesFrom(idx, line - 1)

PlotLines ==
  /\ pc = "lines"
  /\ \E ub \in NaNToInt :
       /\ fraction' = [i \in 1..this_many_characters_wide |-> Fraction(bins[i])]
       /\ index' = [i \in 1..this_many_characters_wide |-> Index(bins[i], ub)]
       /\ oss' = oss \o LinesFrom(index', this_many_lines_high - 1)
  /\ pc' = IF enclose_in_box THEN "bottom" ELSE "done"
  /\ UNCHANGED <<args, minv, maxv, this_many_characters_wide, max_width,
                 w_scale, bins, x_ticks, x_ticks_values>>

(***************************************************************************)
(* Lower border and sample index marks (lines 439-514)                     *)
(***************************************************************************)
\* const size_t sep = 2; x_ticks_separation = 2*sep + ceil(log10(N+1))
XTicksSeparation == 2 * 2 + CharLength(number_of_data_points)

\* x_ticks_number = this_many_characters_wide / x_ticks_separation + 1
XTicksNumber == this_many_characters_wide \div XTicksSeparation + 1

\* x_ticks[] with the last tick one column too far right
XTicksLastAtWidth ==
  [i \in 1..XTicksNumber |->
     IF i < XTicksNumber THEN (i - 1) * XTicksSeparation
     ELSE this_many_characters_wide]

\* x_ticks[]: the last entry is written after the loop
XTicks ==
  [i \in 1..XTicksNumber |->
     IF i < XTicksNumber THEN (i - 1) * XTicksSeparation
     ELSE SizeT(this_many_characters_wide - 1)]

\* the tick labels taken from the tick columns instead of the sample indices
XTicksValuesByColumn ==
  [i \in 1..XTicksNumber |->
     IF i < XTicksNumber THEN (i - 1) * XTicksSeparation
     ELSE number_of_data_points]

\* x_ticks_values[]: the last entry is written after the loop
XTicksValues ==
  [i \in 1..XTicksNumber |->
     IF i < XTicksNumber
     THEN ((i - 1) * number_of_data_points) \div XTicksNumber
     ELSE number_of_data_points]

RECURSIVE BorderFrom(_, _, _)
\* for (i ..) if (i == x_ticks[next_tick]) { HT; ++next_tick } else H
BorderFrom(xt, i, next_tick) ==
  IF i >= this_many_characters_wide THEN <<>>
  ELSE IF i = xt[next_tick + 1]
  THEN <<Tok("HT")>> \o BorderFrom(xt, i + 1, next_tick + 1)
  ELSE <<Tok("H")>> \o BorderFrom(xt, i + 1, next_tick)

\* tofill for the inner tick value at C index i: the separation less the
\* right half of this number and the left half of the previous one
ToFill(xv, i) ==
  LET tmp == CharLength(xv[i + 1])
      rw == tmp - tmp \div 2
      lw == CharLength(xv[i]) \div 2
  IN  SizeT(XTicksSeparation - rw - lw)

RECURSIVE LabelsFrom(_, _, _)
\* the loop over the inner tick values, from C index i on; yields the
\* tokens written and the final current_col
LabelsFrom(xv, i, current_col) ==
  IF i >= Len(xv) - 1 THEN [toks |-> <<>>, col |-> current_col]
  ELSE LET tmp == CharLength(xv[i + 1])
           tofill == ToFill(xv, i)
           rest == LabelsFrom(xv, i + 1, SizeT(current_col + tmp + tofill))
       IN  [toks |-> <<SetwBlank(tofill), <<"num", xv[i + 1], 0>>>> \o rest.toks,
            col |-> rest.col]

\* the width of the field before the last tick value
LastFill(xt, xv) ==
  SizeT(xt[Len(xt)] - LabelsFrom(xv, 1, 1).col
        - CharLength(number_of_data_points) + 2)

\* the x-ticks values line
LabelTokens(xt, xv) ==
  <<NL, Blanks(1), <<"num", xv[1], 0>>>> \o LabelsFrom(xv, 1, 1).toks
    \o <<SetwBlank(LastFill(xt, xv)), <<"num", xv[Len(xv)], 0>>, NL>>

LowerBorder ==
  /\ pc = "bottom"
  /\ x_ticks' = XTicks
  /\ x_ticks_values' = XTicksValues
  /\ oss' = oss \o <<NL, Tok("SW")>> \o BorderFrom(x_ticks', 0, 0)
              \o <<Tok("SE")>> \o LabelTokens(x_ticks', x_ticks_values')
  /\ pc' = "done"
  /\ UNCHANGED <<args, minv, maxv, this_many_characters_wide, max_width,
                 w_scale, bins, fraction, index>>

(***************************************************************************)
(* The call                                                                *)
(***************************************************************************)
Next ==
  \/ ResolveRange
  \/ LimitWidth
  \/ ThrowNotImplemented
  \/ Interpolate
  \/ UpperBorder
  \/ PlotLines
  \/ LowerBorder

Spec == Init /\ [][Next]_vars

(***************************************************************************)
(* Properties                                                              *)
(***************************************************************************)
\* the call got past the "not implemented" check and computed the bins
Binned == pc \in {"top", "lines", "bottom", "done"}

\* the plot lines have been written
Plotted == pc \in {"bottom", "done"}

RECURSIVE RSum(_, _)
\* sum of f[1..k]
RSum(f, k) == IF k = 0 THEN FromInt(0) ELSE RAdd(f[k], RSum(f, k - 1))

\* W times the length of the overlap of sample cell [j, j+1) with the slice
\* [i*N/W, (i+1)*N/W) of column i (C indices)
OverlapW(i, j) ==
  LET N == number_of_data_points
      W == this_many_characters_wide
      lo == IF j * W > i * N THEN j * W ELSE i * N
      hi == IF (j + 1) * W < (i + 1) * N THEN (j + 1) * W ELSE (i + 1) * N
  IN  IF hi > lo THEN hi - lo ELSE 0

\* the average of the series over the slice of column i: the integral of
\* the step function over the slice, divided by the slice length N/W
ExactAverage(i) ==
  LET N == number_of_data_points
      W == this_many_characters_wide
      part == [j \in 1..N |-> RMul(FromInt(OverlapW(i, j - 1)), data[j])]
  IN  RDiv(RDiv(RSum(part, N), FromInt(W)), Rat(N, W))

C2_RequestedAboveNFails ==
  requested_wide > number_of_data_points => ~Binned

\* C2 amended: the call throws exactly when the effective width (after the
\* clip to the terminal) exceeds N, and then nothing was binned or written.
C2_EffectiveAboveNFails ==
  /\ (Binned \/ pc = "thrown") =>
       (pc = "thrown" <=> this_many_characters_wide > number_of_data_points)
  /\ pc = "thrown" => (bins = <<>> /\ oss = <<>>)

\* a call that threw on a width above N
C2_Witness ==
  /\ pc = "thrown"
  /\ requested_wide = number_of_data_points + 1
  /\ this_many_characters_wide = requested_wide

\* C3: a call on an empty series fails before binning, ticks or output.
C3_EmptySeriesFails == number_of_data_points = 0 => ~Binned

\* v as a fraction of the range lies in [k/L, (k+1)/L)
InLevel(v, k) ==
  LET scaled == RMul(RSub(v, minv), FromInt(Levels))
      width == RSub(maxv, minv)
  IN  /\ RLeq(RMul(FromInt(k), width), scaled)
      /\ RLess(scaled, RMul(FromInt(k + 1), width))

\* C4: with minValue < maxValue every column's level lies in [0, L], is the
\* floor of the clamped value's fraction times L, is 0 for a bin below
\* minValue and L for a bin above maxValue.
C4_LevelWithinRange ==
  (Plotted /\ RLess(minv, maxv)) =>
    \A i \in 1..this_many_characters_wide :
      /\ index[i] \in 0..Levels
      /\ RLess(bins[i], minv) => index[i] = 0
      /\ RLess(maxv, bins[i]) => index[i] = Levels
      /\ (RLeq(minv, bins[i]) /\ RLeq(bins[i], maxv)) => InLevel(bins[i], index[i])

\* a plot with a bin below the range and a bin above it, on more than one line
C4_Witness ==
  /\ Plotted
  /\ RLess(minv, maxv)
  /\ this_many_lines_high > 1
  /\ \E i, j \in 1..this_many_characters_wide :
       /\ RLess(bins[i], minv) /\ index[i] = 0
       /\ RLess(maxv, bins[j]) /\ index[j] = Levels

\* C5: with minValue = maxValue nothing is divided by zero and every column
\* is at the top level L.
C5_FlatRangeTopLevel ==
  (Plotted /\ minv = maxv) =>
    \A i \in 1..this_many_characters_wide :
      IsFinite(fraction[i]) /\ index[i] = Levels

\* the least and the greatest sample
SeriesMin ==
  CHOOSE x \in {data[j] : j \in 1..number_of_data_points} :
    \A j \in 1..number_of_data_points : RLeq(x, data[j])

SeriesMax ==
  CHOOSE x \in {data[j] : j \in 1..number_of_data_points} :
    \A j \in 1..number_of_data_points : RLeq(data[j], x)

MinSupplied == minv_arg # FLT_MAX

MaxSupplied == maxv_arg # FLT_MIN

\* C6: with neither bound supplied the range is [min of series, max of
\* series] for every series of length >= 1.
C6_DefaultRangeIsDataRange ==
  (pc # "range" /\ number_of_data_points >= 1
     /\ ~MinSupplied /\ ~MaxSupplied) =>
    (minv = SeriesMin /\ maxv = SeriesMax)

\* C7: with exactly one bound supplied the other is resolved from the
\* series; no unset sentinel is left in the range.
C7_PartialRangeResolved ==
  (pc # "range" /\ number_of_data_points >= 1
     /\ MinSupplied # MaxSupplied) =>
    /\ minv # FLT_MAX /\ maxv # FLT_MIN
    /\ ~MinSupplied => minv = SeriesMin
    /\ ~MaxSupplied => maxv = SeriesMax

\* position of the bottom-right corner in the stream (0 when there is none)
SEPos(o) ==
  IF \E k \in 1..Len(o) : o[k][1] = "SE"
  THEN CHOOSE k \in 1..Len(o) : o[k][1] = "SE" ELSE 0

\* the numbers written on the axis label line
AxisLabels(o) ==
  {o[k][2] : k \in {m \in (SEPos(o) + 1)..Len(o) : o[m][1] = "num"}}

\* C8: with the box, N >= 1 and 1 <= columns <= N, the label line carries a
\* tick labelled 0 and a tick labelled N.
C8_LabelsZeroAndN ==
  (pc = "done" /\ enclose_in_box /\ number_of_data_points >= 1
     /\ this_many_characters_wide >= 1) =>
    {0, number_of_data_points} \subseteq AxisLabels(oss)

BoxKinds == {"NW", "NE", "SW", "SE", "H", "HT", "V", "VT"}

\* C9: with the box requested and fewer than 4 columns the output has no
\* border character and no axis label line.
C9_NarrowPlotHasNoBox ==
  (pc = "done" /\ enclose_in_box /\ this_many_characters_wide < 4) =>
    \A k \in 1..Len(oss) : oss[k][1] \notin BoxKinds \cup {"num"}

\* C10: the effective width is min(C, T - boxOverhead), C the requested
\* width or N when 0 is requested.
C10_EffectiveWidth ==
  LET C == IF requested_wide = 0 THEN number_of_data_points
           ELSE requested_wide
      avail == ws_col - (IF enclose_in_box THEN ENCLOSURE_WIDTH ELSE 0)
  IN  pc \notin {"range", "width"} =>
        this_many_characters_wide = (IF avail < C THEN avail ELSE C)

(***************************************************************************)
(* The text of the output: lines, cells, columns                           *)
(***************************************************************************)
\* the positions of the newlines in the stream o
NLPositions(o) == {k \in 1..Len(o) : o[k][1] = "nl"}

\* the position of the n-th newline of o (n >= 1)
NthNL(o, n) ==
  CHOOSE k \in NLPositions(o) :
    Cardinality({j \in NLPositions(o) : j < k}) = n - 1

\* the number of text lines of o; a stream that ends in a newline has an
\* empty last line
NumLines(o) == Cardinality(NLPositions(o)) + 1

\* text line l of o (from 1), without its newline
TextLine(o, l) ==
  LET from == IF l = 1 THEN 1 ELSE NthNL(o, l - 1) + 1
      to == IF l = NumLines(o) THEN Len(o) ELSE NthNL(o, l) - 1
  IN  SubSeq(o, from, to)

RECURSIVE DecLen(_)
\* the number of characters operator<< writes for the size_t v
DecLen(v) == IF v < 10 THEN 1 ELSE 1 + DecLen(v \div 10)

\* the number of character cells a token takes on its line; a title takes
\* title.size() cells, the value marks are not measured (they end a line)
TokWidth(t) ==
  IF t[1] = "sp" THEN t[2]
  ELSE IF t[1] = "num" THEN DecLen(t[2])
  ELSE IF t[1] = "title" THEN t[2]
  ELSE 1

RECURSIVE ColumnOf(_, _)
\* the character column (from 0) at which token k of the line starts
ColumnOf(line, k) ==
  IF k = 1 THEN 0 ELSE ColumnOf(line, k - 1) + TokWidth(line[k - 1])

\* the kinds of the tokens of a line
Kinds(line) == [k \in 1..Len(line) |-> line[k][1]]

\* the number of lines the upper border block writes
HeaderLines == IF enclose_in_box THEN 1 ELSE 0

\* the text line that holds plot row r (row rows-1 is written first)
RowLine(o, r) == TextLine(o, HeaderLines + this_many_lines_high - r)

\* the plot cells of a text line: its blanks and glyphs
IsCell(t) == t[1] \in {"sp", "tick"}

CellsOf(line) == SelectSeq(line, IsCell)

\* the lower border line and the axis label line of a boxed plot
BorderLine(o) == TextLine(o, HeaderLines + this_many_lines_high + 1)

LabelLine(o) == TextLine(o, HeaderLines + this_many_lines_high + 2)

\* the columns (from 0, the corner not counted) of the tick marks drawn in
\* the lower border
TickMarkColumns(o) ==
  LET line == BorderLine(o)
  IN  {k - 2 : k \in {m \in 1..Len(line) : line[m][1] = "HT"}}

\* the numbers on the label line, left to right
IsNum(t) == t[1] = "num"

LabelNumbers(o) ==
  LET nums == SelectSeq(LabelLine(o), IsNum)
  IN  [k \in 1..Len(nums) |-> nums[k][2]]

\* a finished boxed plot of a non-empty series
BoxedDone ==
  /\ pc = "done"
  /\ enclose_in_box
  /\ number_of_data_points >= 1
  /\ this_many_characters_wide >= 1

\* the finished end-to-end example: 21 samples, 3 rows, 21 columns, box
GaussianDone ==
  /\ BoxedDone
  /\ number_of_data_points = 21
  /\ this_many_lines_high = 3
  /\ this_many_characters_wide = 21

\* C11 as stated: in the end-to-end example the axis has the ticks 0 and 21
\* and no other tick.
C11_OnlyTwoTicks ==
  GaussianDone =>
    /\ TickMarkColumns(oss) = {0, 20}
    /\ LabelNumbers(oss) = <<0, 21>>

\* C11 amended: in the end-to-end example the axis has tick 0 at the left
\* and tick 21 at the right, and between them the ticks 5 and 10, at the
\* columns 0, 6, 12 and 20, as in the README.
C11_FourTicks ==
  GaussianDone =>
    /\ TickMarkColumns(oss) = {0, 6, 12, 20}
    /\ LabelNumbers(oss) = <<0, 5, 10, 21>>
    /\ Kinds(BorderLine(oss)) =
         <<"SW", "HT", "H", "H", "H", "H", "H", "HT", "H", "H", "H", "H", "H",
           "HT", "H", "H", "H", "H", "H", "H", "H", "HT", "SE">>

\* the README call itself, finished
C11_Witness ==
  /\ GaussianDone
  /\ title = 8
  /\ maxv = Rat(15, 100)
  /\ Len(LabelNumbers(oss)) = 4

\* the levels the columns of the plot take when it is drawn on rows lines
LevelsTaken(rows) ==
  {IndexAt(bins[i], 0, LevelsOf(rows)) : i \in 1..this_many_characters_wide}

\* C12 as stated: for fixed bins and range, a plot on more rows never has
\* fewer distinct levels among its columns than the plot on fewer rows.
C12_DistinctLevelsMonotonic ==
  (Plotted /\ RLess(minv, maxv)) =>
    /\ LevelsTaken(this_many_lines_high)
         = {index[i] : i \in 1..this_many_characters_wide}
    /\ \A r1 \in 1..(this_many_lines_high - 1) :
         Cardinality(LevelsTaken(this_many_lines_high))
           >= Cardinality(LevelsTaken(r1))

\* C12 amended: the quantizer keeps the order of the bins, and two columns
\* whose levels differ by 2 or more on r1 rows have different levels, in
\* the same order, on every r2 > r1 rows; columns on adjacent levels can
\* fall together, so the count of distinct levels can decrease.
C12_ResolutionKeepsSeparatedLevels ==
  (Plotted /\ RLess(minv, maxv)) =>
    \A i, j \in 1..this_many_characters_wide :
      /\ RLeq(bins[i], bins[j]) => index[i] <= index[j]
      /\ \A r1 \in 1..(this_many_lines_high - 1) :
           IndexAt(bins[i], 0, LevelsOf(r1)) + 2
               <= IndexAt(bins[j], 0, LevelsOf(r1))
             => index[i] < index[j]

\* a plot on 3 rows that has fewer distinct levels than it has on 2 rows,
\* and columns two levels apart on 2 rows
C12_Witness ==
  /\ Plotted
  /\ RLess(minv, maxv)
  /\ this_many_lines_high = 3
  /\ Cardinality(LevelsTaken(3)) < Cardinality(LevelsTaken(2))
  /\ \E i, j \in 1..this_many_characters_wide :
       IndexAt(bins[i], 0, LevelsOf(2)) + 2 <= IndexAt(bins[j], 0, LevelsOf(2))

\* the upper border has been written
TopWritten == pc \in {"lines", "bottom", "done"}

C14_LongTitleAboveBox ==
  (pc = "done" /\ enclose_in_box /\ title > this_many_characters_wide) =>
    /\ TextLine(oss, 1) = <<<<"title", title, 0>>>>
    /\ Kinds(TextLine(oss, 2)) =
         <<"NW">> \o [k \in 1..this_many_characters_wide |-> "H"] \o <<"NE">>

\* C15: without the box the output is rows lines of columns cells each,
\* joined by single newlines, rows-1 first and row 0 last, the last line
\* not terminated, and nothing else.
C15_PlainOutput ==
  (pc = "done" /\ ~enclose_in_box) =>
    /\ NumLines(oss) = this_many_lines_high
    /\ \A k \in 1..Len(oss) : oss[k][1] \in {"sp", "tick", "nl"}
    /\ \A l \in 1..this_many_lines_high :
         TextLine(oss, l) =
           [i \in 1..this_many_characters_wide |->
              Cell(index[i], this_many_lines_high - l)]
    /\ Len(oss) = this_many_lines_high * this_many_characters_wide
                    + (this_many_lines_high - 1)

\* a box-less plot on several lines that differ
C15_Witness ==
  /\ pc = "done"
  /\ ~enclose_in_box
  /\ this_many_lines_high = 3
  /\ this_many_characters_wide = 3
  /\ TextLine(oss, 1) # TextLine(oss, 3)

\* the cell a column at level k shows on row r: a stack of full glyphs
\* below the row of the level, blanks above it
StackCell(k, r) ==
  LET r0 == k \div TICKS
  IN  IF r = r0 THEN <<"tick", k - r0 * TICKS, 0>>
      ELSE IF r < r0 THEN <<"tick", TICKS - 1, 0>>
      ELSE <<"sp", 1, 0>>

\* C16: a column at level k in [0, L] shows glyph k - r0*levelsPerRow on row
\* r0 = floor(k/levelsPerRow), the full glyph on every row below and a blank
\* on every row above; glyph indices stay in [0, levelsPerRow-1].
C16_ColumnsAreStacks ==
  Plotted =>
    \A r \in 0..(this_many_lines_high - 1) :
      LET cells == CellsOf(RowLine(oss, r))
      IN  /\ Len(cells) = this_many_characters_wide
          /\ \A i \in 1..this_many_characters_wide :
               /\ index[i] \in 0..Levels => cells[i] = StackCell(index[i], r)
               /\ cells[i][1] = "tick" => cells[i][2] \in 0..(TICKS - 1)

\* a plot on 3 rows with a column whose level lies in the middle row and a
\* column at the bottom of a row
C16_Witness ==
  /\ Plotted
  /\ this_many_lines_high = 3
  /\ \E i, j \in 1..this_many_characters_wide :
       /\ index[i] \in (TICKS + 1)..(2 * TICKS - 1)
       /\ index[j] \in {0, TICKS, 2 * TICKS}

\* the set of the tick columns x_ticks[]
TickColumns == {x_ticks[k] : k \in 1..Len(x_ticks)}

\* C17: with the box, the tick columns are multiples of the separation
\* 4 + ceil(log10(N+1)) together with the last column, include column 0 and
\* column columns-1, increase strictly, and the lower border has a tick mark
\* at exactly these columns and a plain border character elsewhere.
C17_TickColumns ==
  BoxedDone =>
    /\ \A c \in TickColumns \ {this_many_characters_wide - 1} :
         c % (4 + CeilLog10(number_of_data_points + 1)) = 0
    /\ {0, this_many_characters_wide - 1} \subseteq TickColumns
    /\ \A k \in 1..(Len(x_ticks) - 1) : x_ticks[k] < x_ticks[k + 1]
    /\ TickMarkColumns(oss) = TickColumns
    /\ \A m \in 2..(Len(BorderLine(oss)) - 1) :
         BorderLine(oss)[m][1] \in {"H", "HT"}
    /\ Len(BorderLine(oss)) = this_many_characters_wide + 2

RowMark(r) ==
  LET line == RowLine(oss, r)
  IN  [txt |-> line[Len(line) - 1], val |-> <<line[Len(line)][2], line[Len(line)][3]>>]

\* a finished boxed plot with interior rows
TallBoxedDone == pc = "done" /\ enclose_in_box /\ this_many_lines_high >= 3

\* the top row carries " max: " and maxv, the bottom row " min: " and minv
EndRowsMarked ==
  /\ RowMark(this_many_lines_high - 1) = [txt |-> <<"txt", 3, 0>>, val |-> maxv]
  /\ RowMark(0) = [txt |-> <<"txt", 1, 0>>, val |-> minv]

\* C19 as stated: the mark of an interior row r is the value of level
\* r*levelsPerRow + levelsPerRow/2 under the inverse of the quantizer's map,
\* minValue + (r*levelsPerRow + levelsPerRow/2)*(maxValue-minValue)/L with
\* L = rows*levelsPerRow - 1; top row max, bottom row min.
C19_MiddleMarkInverseOfLevels ==
  TallBoxedDone =>
    /\ EndRowsMarked
    /\ \A r \in 1..(this_many_lines_high - 2) :
         RMul(RSub(RowMark(r).val, minv),
              FromInt(this_many_lines_high * TICKS - 1))
           = RMul(FromInt(r * TICKS + TICKS \div 2), RSub(maxv, minv))

\* C19 amended: the mark of an interior row r is
\* minValue + (r*levelsPerRow + levelsPerRow/2)*(maxValue-minValue)/(rows*levelsPerRow),
\* the divisor being rows*levelsPerRow, not L; top row max, bottom row min.
C19_MiddleMarkOverAllCells ==
  TallBoxedDone =>
    /\ EndRowsMarked
    /\ \A r \in 1..(this_many_lines_high - 2) :
         /\ RowMark(r).txt = <<"txt", 4, 0>>
         /\ RMul(RSub(RowMark(r).val, minv),
                 FromInt(this_many_lines_high * TICKS))
              = RMul(FromInt(r * TICKS + TICKS \div 2), RSub(maxv, minv))

\* the README example: the middle row is marked 0.075 between 0 and 0.15
C19_Witness ==
  /\ GaussianDone
  /\ minv = FromInt(0)
  /\ maxv = Rat(15, 100)
  /\ RowMark(1).val = Rat(75, 1000)

\* the positions, in the label line, of the number tokens
LabelPositions(o) ==
  LET line == LabelLine(o)
      at == {m \in 1..Len(line) : line[m][1] = "num"}
  IN  [k \in 1..Cardinality(at) |->
         CHOOSE m \in at : Cardinality({j \in at : j < m}) = k - 1]

\* C20: on the label line every tick label covers the column under its tick
\* mark, consecutive labels have a blank between them, and every computed
\* padding width is non-negative.
C20_LabelsUnderTicks ==
  BoxedDone =>
    LET line == LabelLine(oss)
        at == LabelPositions(oss)
    IN  /\ Len(at) = Len(x_ticks)
        /\ \A k \in 1..Len(at) :
             /\ k <= Len(x_ticks) =>
                  /\ ColumnOf(line, at[k]) <= x_ticks[k] + 1
                  /\ x_ticks[k] + 1 < ColumnOf(line, at[k]) + DecLen(line[at[k]][2])
             /\ k > 1 => ColumnOf(line, at[k])
                           > ColumnOf(line, at[k - 1]) + DecLen(line[at[k - 1]][2])
        /\ \A i \in 1..(Len(x_ticks_values) - 2) :
             ToInt(ToFill(x_ticks_values, i)) >= 0
        /\ ToInt(LastFill(x_ticks, x_ticks_values)) >= 0

(***************************************************************************)
(* Binning with rounded float arithmetic (lines 313, 321-346).             *)
(* w_scale, the slice boundaries and the bin sums are floats: every        *)
(* conversion and every operation rounds to the nearest value with a       *)
(* FloatMant-bit significand (ties to even).  The build's float has 24     *)
(* bits; the model keeps the rounding rule and scales the width down.      *)
(***************************************************************************)
\* bits of the significand of a float
FloatMant == 4

\* the longest series of the calls with rounded arithmetic: a few samples
\* past the first integers that a float cannot hold
MaxNFloat == 2^FloatMant + 4

RECURSIVE Normalise(_, _, _)
\* n/d > 0 written as (n'/d') * 2^e with 2^(FloatMant-1) <= n'/d' < 2^FloatMant
Normalise(n, d, e) ==
  IF n >= d * 2^FloatMant THEN Normalise(n, 2 * d, e + 1)
  ELSE IF n < d * 2^(FloatMant - 1) THEN Normalise(2 * n, d, e - 1)
  ELSE <<n, d, e>>

\* n/d rounded to the nearest integer, ties to the even one
RoundHalfEven(n, d) ==
  LET q == n \div d
      r == n % d
  IN  IF 2 * r > d THEN q + 1
      ELSE IF 2 * r < d THEN q
      ELSE IF q % 2 = 0 THEN q ELSE q + 1

\* the float nearest to the real number x (conversion to float, and the
\* rounding of the result of every float operation)
ToFloat(x) ==
  IF ~IsFinite(x) \/ x[1] = 0 THEN x
  ELSE LET t == Normalise(Abs(x[1]), x[2], 0)
           m == Sign(x[1]) * RoundHalfEven(t[1], t[2])
       IN  IF t[3] >= 0 THEN Rat(m * 2^(t[3]), 1)
           ELSE Rat(m, 2^(-t[3]))

FAdd(x, y) == ToFloat(RAdd(x, y))

FSub(x, y) == ToFloat(RSub(x, y))

FMul(x, y) == ToFloat(RMul(x, y))

FDiv(x, y) == ToFloat(RDiv(x, y))

\* (float)n of a size_t n
FloatOf(n) == ToFloat(FromInt(n))

\* Calls that exercise the rounding: the ramp series of every length up to
\* MaxNFloat, every width, one row, no box, default range.
InitFloat ==
  /\ number_of_data_points \in 1..MaxNFloat
  /\ data = [i \in 1..number_of_data_points |-> FromInt((i % 3) - 1)]
  /\ this_many_lines_high = 1
  /\ requested_wide \in 0..(number_of_data_points + 1)
  /\ enclose_in_box = FALSE
  /\ title = 0
  /\ ws_col = 80
  /\ minv_arg = FLT_MAX
  /\ maxv_arg = FLT_MIN
  /\ minv = minv_arg
  /\ maxv = maxv_arg
  /\ this_many_characters_wide = requested_wide
  /\ max_width = 0
  /\ w_scale = FromInt(1)
  /\ bins = <<>>
  /\ fraction = <<>>
  /\ index = <<>>
  /\ x_ticks = <<>>
  /\ x_ticks_values = <<>>
  /\ oss = <<>>
  /\ pc = "range"

\* lines 301-313 with w_scale = (float)this_many_characters_wide /
\* number_of_data_points computed in float
LimitWidthFloat ==
  /\ pc = "width"
  /\ max_width' = MaxWidth
  /\ this_many_characters_wide' = LimitedWidth(max_width')
  /\ w_scale' = FDiv(FloatOf(this_many_characters_wide'),
                     FloatOf(number_of_data_points))
  /\ pc' = "check"
  /\ UNCHANGED <<args, minv, maxv, bins, fraction, index, x_ticks,
                 x_ticks_values, oss>>

\* bin_slices_indices[i] = i/w_scale, a float
BinSliceFloat(i) == FDiv(FloatOf(i), w_scale)

\* the indices at which data is read for a bin with slice [lower, upper):
\* data[(size_t)lower] (line 336), data[j] of the loop (337-339), and
\* data[(size_t)upper] behind its bounds test (340-342)
ReadIndices(lower, upper) ==
  {Trunc(lower)}
    \cup ((Trunc(lower) + 1)..(Trunc(upper) - 1))
    \cup (IF Trunc(upper) < number_of_data_points THEN {Trunc(upper)} ELSE {})

\* what a read past the end of the series can return
OutOfBoundsValues == {FromInt(-1), FromInt(2)}

\* data[j]; a read at j >= N is undefined and returns some value g
DataAt(j, g) == IF j < number_of_data_points THEN data[j + 1] ELSE g

RECURSIVE FullSamplesFloat(_, _, _, _)
\* for (j = from; j < to; ++j) acc += data[j]; a NaN sum stays NaN
FullSamplesFloat(acc, from, to, g) ==
  IF IsNaN(acc) \/ from >= to THEN acc
  ELSE FullSamplesFloat(FAdd(acc, DataAt(from, g)), from + 1, to, g)

\* bins[i] for C index i, every operation rounded
BinFloat(i, g) ==
  LET lower == BinSliceFloat(i)
      upper == BinSliceFloat(i + 1)
      mass_per_bin == FDiv(FromInt(1), w_scale)
      first == FMul(FSub(FromInt(1), FSub(lower, FloatOf(Trunc(lower)))),
                    DataAt(Trunc(lower), g))
      full == FullSamplesFloat(FAdd(FromInt(0), first), Trunc(lower) + 1,
                               Trunc(upper), g)
      acc == IF Trunc(upper) < number_of_data_points
             THEN FAdd(full, FMul(FSub(upper, FloatOf(Trunc(upper))),
                                  DataAt(Trunc(upper), g)))
             ELSE full
  IN  FDiv(acc, mass_per_bin)

InterpolateFloat ==
  /\ pc = "check"
  /\ ~NotImplemented
  /\ \E g \in OutOfBoundsValues :
       bins' = [i \in 1..this_many_characters_wide |-> BinFloat(i - 1, g)]
  /\ pc' = "top"
  /\ UNCHANGED <<args, minv, maxv, this_many_characters_wide, max_width,
                 w_scale, fraction, index, x_ticks, x_ticks_values, oss>>

\* the call up to the end of the binning
NextFloat ==
  \/ ResolveRange
  \/ LimitWidthFloat
  \/ ThrowNotImplemented
  \/ InterpolateFloat

SpecFloat == InitFloat /\ [][NextFloat]_vars

\* C21: for N >= 1 and 1 <= W <= N, binning reads the series only at
\* indices in [0, N-1], every slice boundary it truncates is at most N (so
\* the partial contribution at floor(upper) is skipped exactly when
\* floor(upper) = N), it fills exactly the bins 0..W-1, and the series is
\* left as it was.
C21_BinningIndicesInBounds ==
  (pc = "top" /\ number_of_data_points >= 1
     /\ this_many_characters_wide >= 1
     /\ this_many_characters_wide <= number_of_data_points) =>
    /\ \A i \in 0..(this_many_characters_wide - 1) :
         /\ ReadIndices(BinSliceFloat(i), BinSliceFloat(i + 1))
              \subseteq 0..(number_of_data_points - 1)
         /\ Trunc(BinSliceFloat(i + 1)) <= number_of_data_points
    /\ DOMAIN bins = 1..this_many_characters_wide
    /\ data = [i \in 1..number_of_data_points |-> FromInt((i % 3) - 1)]

\* the same reads with exact slice boundaries i/w_scale
ExactReadsInBounds ==
  (Binned /\ number_of_data_points >= 1 /\ this_many_characters_wide >= 1) =>
    \A i \in 0..(this_many_characters_wide - 1) :
      ReadIndices(BinSlice(i), BinSlice(i + 1))
        \subseteq 0..(number_of_data_points - 1)

\* C22: with the box, the effective column count never exceeds the
\* terminal width.
C22_BoxedWidthWithinTerminal ==
  (enclose_in_box /\ pc \notin {"range", "width"}) =>
    this_many_characters_wide <= ws_col

====
